---- MODULE Spec2Model ----
(***************************************************************************)
(* Model of the two scripts of medical-desert-california:                  *)
(*   scripts/download_data.py  (the Acquirer,    download_data.main)       *)
(*   scripts/process_data.py   (the Transformer, process_data.main)        *)
(*                                                                         *)
(* Representation.                                                         *)
(*   - A Python str is a sequence of ASCII codes ("0" is 48, "A" is 65).   *)
(*   - An int64 tract code is the sequence of its decimal digits 0..9      *)
(*     without leading zero (an 11 digit number does not fit TLC's int).   *)
(*   - A percentage is a natural number; NaN is -1.  A missing string is   *)
(*     NaNS.                                                               *)
(*   - A mean is the pair [sum, cnt] and is compared with a threshold t    *)
(*     exactly: sum > t * cnt.  cnt = 0 is NaN.                            *)
(*   - A DataFrame is a record [cols, rows]: the set of its measure        *)
(*     columns and the sequence of its rows.                               *)
(***************************************************************************)
EXTENDS Integers, Sequences, FiniteSets, TLC

VARIABLES
    \* ---- Transformer (process_data.py) ----
    pc,            \* position of process_data.main
    cdcExists,     \* RAW_DATA_DIR / cdc_places_2024_tracts.csv exists
    usdaExists,    \* RAW_DATA_DIR / usda_food_access_2019.xlsx exists
    rawCdc,        \* rows of the raw health table
    rawUsda,       \* rows of the raw food-access sheet
    health_df,     \* load_cdc_places()
    health_pivot,  \* pivot_health_data(health_df)
    food_df,       \* load_usda_food_access()
    merged_df,     \* merge_datasets(health_pivot, food_df)
    final_df,      \* calculate_risk_scores(merged_df)
    sc_df,         \* focus_on_santa_clara(final_df)
    fullCsv,       \* PROCESSED_DATA_DIR / california_health_equity.csv
    scCsv,         \* PROCESSED_DATA_DIR / santa_clara_health_equity.csv
    written,       \* the output files this run has created or overwritten
    exc,           \* the exception in flight, "none" when there is none
    failedAt,      \* the stage that raised it
    outcome,       \* how main ended
    \* ---- Acquirer (download_data.py) ----
    apc,           \* position of download_data.main
    rawFiles,      \* state of the three files of the raw-data area
    fault,         \* where each source's download failed ("none": it did not)
    success,       \* cdc_success, usda_success, provider_success
    attempts,      \* the sources attempted, in order
    summary        \* the summary line printed for each source

tvars == <<pc, cdcExists, usdaExists, rawCdc, rawUsda, health_df, health_pivot,
           food_df, merged_df, final_df, sc_df, fullCsv, scCsv, written, exc,
           failedAt, outcome>>
avars == <<apc, rawFiles, fault, success, attempts, summary>>
vars == <<tvars, avars>>

----------------------------------------------------------------------------
(* Values *)

NaN == -1
NaNS == <<-1>>
NoFile == <<-2>>
PartialFile == <<-3>>

Max(a, b) == IF a >= b THEN a ELSE b

\* str.lower() on one ASCII character
Lower(c) == IF c >= 65 /\ c <= 90 THEN c + 32 ELSE c

LowerStr(s) == [i \in 1..Len(s) |-> Lower(s[i])]

\* sub in s
Contains(s, sub) ==
    \E i \in 0..(Len(s) - Len(sub)) : SubSeq(s, i + 1, i + Len(sub)) = sub

\* variant: the letter case is compared too
StrContainsCaseSensitive(s, pat) == s # NaNS /\ Contains(s, pat)

\* Series.str.contains(pat, case=False, na=False) on one value
StrContainsNoCase(s, pat) ==
    s # NaNS /\ Contains(LowerStr(s), LowerStr(pat))

\* int64 -> str  (Series.astype(str)): the decimal digits as characters
IntToStr(n) == [i \in 1..Len(n) |-> 48 + n[i]]

Zeros(k) == [i \in 1..k |-> 48]

FipsWidth == 11

\* variant: the zeros go to the right
ZfillRight(s, width) ==
    IF Len(s) >= width THEN s ELSE s \o Zeros(width - Len(s))

\* str.zfill(width): a string at least width long is returned as it is;
\* a shorter one gets zeros on the left, after a leading sign if it has one.
Zfill(s, width) ==
    IF Len(s) >= width THEN s
    ELSE IF Len(s) > 0 /\ s[1] \in {43, 45}
         THEN <<s[1]>> \o Zeros(width - Len(s)) \o Tail(s)
         ELSE Zeros(width - Len(s)) \o s

\* lexicographic order on strings
RECURSIVE LexLess(_, _)
LexLess(a, b) ==
    IF b = <<>> THEN FALSE
    ELSE IF a = <<>> THEN TRUE
    ELSE IF a[1] # b[1] THEN a[1] < b[1]
    ELSE LexLess(Tail(a), Tail(b))

\* order on int64 values given by their digits
IntLess(a, b) == Len(a) < Len(b) \/ (Len(a) = Len(b) /\ LexLess(a, b))

----------------------------------------------------------------------------
(* load_cdc_places *)

measures_to_keep ==
    {"DIABETES", "CHD", "STROKE", "OBESITY", "BPHIGH", "CSMOKING", "CHECKUP",
     "ACCESS2"}

\* the two boolean-mask filters of load_cdc_places, on the rows of the file
FilterCdc(raw) ==
    LET IsCa(r) == r.StateAbbr = "CA"
        Keep(r) == /\ r.MeasureId \in measures_to_keep
                   /\ r.Data_Value_Type = "Crude prevalence"
    IN  SelectSeq(SelectSeq(raw, IsCa), Keep)

----------------------------------------------------------------------------
(* pivot_health_data *)

column_mapping ==
    [m \in measures_to_keep |->
        CASE m = "DIABETES" -> "diabetes_prevalence"
          [] m = "CHD"      -> "heart_disease_prevalence"
          [] m = "STROKE"   -> "stroke_prevalence"
          [] m = "OBESITY"  -> "obesity_prevalence"
          [] m = "BPHIGH"   -> "high_bp_prevalence"
          [] m = "CSMOKING" -> "smoking_prevalence"
          [] m = "CHECKUP"  -> "annual_checkup_pct"
          [] m = "ACCESS2"  -> "no_insurance_pct"]

\* the index of the pivot table
IndexKey(r) == <<r.LocationID, r.LocationName, r.CountyName>>

\* groupby drops the rows with a missing key
HasKeys(r) == r.LocationID # <<>> /\ r.LocationName # NaNS /\ r.CountyName # NaNS

\* aggfunc='first': the first non-null Data_Value of the group, NaN if none
FirstValue(rows, key, m) ==
    LET hit == {i \in 1..Len(rows) :
                   /\ HasKeys(rows[i]) /\ IndexKey(rows[i]) = key
                   /\ rows[i].MeasureId = m /\ rows[i].Data_Value # NaN}
    IN  IF hit = {} THEN NaN
        ELSE rows[CHOOSE i \in hit : \A j \in hit : i <= j].Data_Value

\* groupby sorts by the index: LocationID, then LocationName, then CountyName
KeyLess(a, b) ==
    \/ IntLess(a[1], b[1])
    \/ a[1] = b[1] /\ LexLess(a[2], b[2])
    \/ a[1] = b[1] /\ a[2] = b[2] /\ LexLess(a[3], b[3])

RECURSIVE SortKeys(_)
SortKeys(S) ==
    IF S = {} THEN <<>>
    ELSE LET k == CHOOSE x \in S : \A y \in S \ {x} : KeyLess(x, y)
         IN  <<k>> \o SortKeys(S \ {k})

\* pivot_table(index, columns='MeasureId', values='Data_Value', aggfunc='first')
\* .reset_index().rename(columns=column_mapping):
\* one row per index key that has a value, one column per measure that has one
pivot_health_data(df_ca) ==
    LET live == {i \in 1..Len(df_ca) :
                    HasKeys(df_ca[i]) /\ df_ca[i].Data_Value # NaN}
        keys == {IndexKey(df_ca[i]) : i \in live}
        ms   == {df_ca[i].MeasureId : i \in live}
        order == SortKeys(keys)
    IN  [cols |-> {column_mapping[m] : m \in ms},
         rows |-> [n \in 1..Len(order) |->
                     [tract_fips    |-> order[n][1],
                      location_name |-> order[n][2],
                      county_name   |-> order[n][3],
                      m |-> [c \in {column_mapping[m] : m \in ms} |->
                               FirstValue(df_ca, order[n],
                                   CHOOSE m \in ms : column_mapping[m] = c)]]]]

----------------------------------------------------------------------------
(* load_usda_food_access *)

\* df[df['State'] == 'California'][columns_to_keep], then the tract_fips column
\* (of the kept columns the model carries those that a later stage reads)
load_usda_rows(raw) ==
    LET IsCa(r) == r.State = "California"
        ca == SelectSeq(raw, IsCa)
    IN  [i \in 1..Len(ca) |->
            [CensusTract       |-> ca[i].CensusTract,
             State             |-> ca[i].State,
             County            |-> ca[i].County,
             Urban             |-> ca[i].Urban,
             LILATracts_1And10 |-> ca[i].LILATracts_1And10,
             tract_fips        |-> Zfill(IntToStr(ca[i].CensusTract), FipsWidth)]]

----------------------------------------------------------------------------
(* merge_datasets *)

\* health_df['tract_fips'].astype(str).str.zfill(11): the column is int64
PadHealth(rows) ==
    [i \in 1..Len(rows) |->
        [rows[i] EXCEPT !.tract_fips = Zfill(IntToStr(@), FipsWidth)]]

\* food_df['tract_fips'].astype(str).str.zfill(11): the column holds str
PadFood(rows) ==
    [i \in 1..Len(rows) |-> [rows[i] EXCEPT !.tract_fips = Zfill(@, FipsWidth)]]

\* a row of the left table joined with a row of the right table
Joined(h, f) ==
    [tract_fips |-> h.tract_fips, location_name |-> h.location_name,
     county_name |-> h.county_name, m |-> h.m,
     CensusTract |-> f.CensusTract, State |-> f.State, County |-> f.County,
     Urban |-> f.Urban, LILATracts_1And10 |-> f.LILATracts_1And10]

\* the right side of a left row that has no match
NoFood ==
    [CensusTract |-> <<>>, State |-> "NaN", County |-> "NaN", Urban |-> NaN,
     LILATracts_1And10 |-> NaN]

\* DataFrame.merge(how='left', on='tract_fips'): the left rows in order, each
\* once per matching right row, or once with a missing right side
RECURSIVE LeftJoin(_, _)
LeftJoin(hs, fs) ==
    IF hs = <<>> THEN <<>>
    ELSE LET Match(f) == f.tract_fips = hs[1].tract_fips
             ms == SelectSeq(fs, Match)
             out == IF ms = <<>> THEN <<Joined(hs[1], NoFood)>>
                    ELSE [j \in 1..Len(ms) |-> Joined(hs[1], ms[j])]
         IN  out \o LeftJoin(Tail(hs), fs)

----------------------------------------------------------------------------
(* calculate_risk_scores *)

Fillna(v, d) == IF v = NaN THEN d ELSE v

health_measures ==
    {"diabetes_prevalence", "heart_disease_prevalence", "obesity_prevalence",
     "high_bp_prevalence", "no_insurance_pct"}

RECURSIVE SumOver(_, _)
SumOver(f, S) ==
    IF S = {} THEN 0
    ELSE LET c == CHOOSE x \in S : TRUE IN f[c] + SumOver(f, S \ {c})

\* df[health_measures].mean(axis=1) on one row: the mean of the measures that
\* are present, NaN (cnt = 0) when none is
MeanSkipNa(m) ==
    LET have == {c \in health_measures : m[c] # NaN}
    IN  [sum |-> SumOver(m, have), cnt |-> Cardinality(have)]

\* score > t; False for NaN
ScoreGt(s, t) == s.cnt > 0 /\ s.sum > t * s.cnt

\* variant: a missing score counts as 0
ScoreLeNaNTrue(s, t) == s.cnt = 0 \/ s.sum <= t * s.cnt

\* score <= t; False for NaN
ScoreLe(s, t) == s.cnt > 0 /\ s.sum <= t * s.cnt

\* score >= t and score < t, for the right=False variant of pd.cut
ScoreGe(s, t) == s.cnt > 0 /\ s.sum >= t * s.cnt
ScoreLt(s, t) == s.cnt > 0 /\ s.sum < t * s.cnt

bins == <<0, 10, 15, 20, 100>>
labels == <<"Low Risk", "Medium Risk", "High Risk", "Critical Risk">>

\* variant: right=False, label i for bins[i] <= x < bins[i+1]
CutLeftClosed(s) ==
    LET hit == {i \in 1..Len(labels) :
                   ScoreGe(s, bins[i]) /\
                   (ScoreLt(s, bins[i + 1]) \/
                    (i = Len(labels) /\ ScoreLe(s, bins[i + 1])))}
    IN  IF hit = {} THEN "NaN" ELSE labels[CHOOSE i \in hit : TRUE]

\* pd.cut(x, bins, labels) with the defaults right=True, include_lowest=False:
\* label i for bins[i] < x <= bins[i+1], NaN for any other x
Cut(s) ==
    LET hit == {i \in 1..Len(labels) :
                   ScoreGt(s, bins[i]) /\ ScoreLe(s, bins[i + 1])}
    IN  IF hit = {} THEN "NaN" ELSE labels[CHOOSE i \in hit : TRUE]

\* variant: the second assignment without its food-desert test
AssignDiseaseOnlyNoFlag(r) ==
    IF ScoreGt(r.health_risk_score, 15)
    THEN [r EXCEPT !.combined_risk = "High Risk: Disease Only"] ELSE r

\* the three df.loc[mask, 'combined_risk'] = label assignments, on one row
AssignDesertDisease(r) ==
    IF ScoreGt(r.health_risk_score, 15) /\ r.is_food_desert
    THEN [r EXCEPT !.combined_risk = "High Risk: Desert + Disease"] ELSE r
AssignDiseaseOnly(r) ==
    IF ScoreGt(r.health_risk_score, 15) /\ ~r.is_food_desert
    THEN [r EXCEPT !.combined_risk = "High Risk: Disease Only"] ELSE r
AssignDesertOnly(r) ==
    IF ScoreLe(r.health_risk_score, 15) /\ r.is_food_desert
    THEN [r EXCEPT !.combined_risk = "Moderate Risk: Desert Only"] ELSE r

Assign(k, r) ==
    CASE k = 1 -> AssignDesertDisease(r)
      [] k = 2 -> AssignDiseaseOnly(r)
      [] k = 3 -> AssignDesertOnly(r)

\* the columns calculate_risk_scores adds to one row, before the assignments
ScoredRow(r) ==
    LET lila  == Fillna(r.LILATracts_1And10, 0)
        score == MeanSkipNa(r.m)
    IN  [tract_fips |-> r.tract_fips, location_name |-> r.location_name,
         county_name |-> r.county_name, m |-> r.m,
         CensusTract |-> r.CensusTract, State |-> r.State, County |-> r.County,
         Urban |-> Fillna(r.Urban, 1),
         LILATracts_1And10 |-> lila,
         health_risk_score |-> score,
         health_risk_category |-> Cut(score),
         is_food_desert |-> (lila = 1),
         combined_risk |-> "Low Risk"]

\* calculate_risk_scores on one row
RiskRow(r) == Assign(3, Assign(2, Assign(1, ScoredRow(r))))

\* focus_on_santa_clara's filter
CountyFilter == <<83, 97, 110, 116, 97, 32, 67, 108, 97, 114, 97>>

IsSantaClara(r) == StrContainsNoCase(r.county_name, CountyFilter)

----------------------------------------------------------------------------
(* The raw files the runs start from *)

MaxExtraObs == 2     \* rows appended to the complete tracts of the health file
MaxFoodRows == 2     \* rows of the food-access sheet
MaxIdLen == 12       \* digits of a tract code read from the food-access sheet

Obs(st, id, name, county, meas, vtype, val) ==
    [StateAbbr |-> st, LocationID |-> id, LocationName |-> name,
     CountyName |-> county, MeasureId |-> meas, Data_Value_Type |-> vtype,
     Data_Value |-> val]

Food(st, id, county, urban, lila) ==
    [State |-> st, CensusTract |-> id, County |-> county, Urban |-> urban,
     LILATracts_1And10 |-> lila]

T1 == <<6, 0, 6, 6, 0, 0, 0, 6, 0, 0>>
T2 == <<6, 0, 0, 6, 0, 0, 0, 6, 0, 0>>
T3 == <<6, 6, 0, 0, 6, 0, 0, 0, 6, 0, 0>>
NameA == <<84, 114, 97, 99, 116, 32, 65>>
NameB == <<84, 114, 97, 99, 116, 32, 66>>
SantaClara == <<83, 97, 110, 116, 97, 32, 67, 108, 97, 114, 97>>
SANTACLARA == <<83, 65, 78, 84, 65, 32, 67, 76, 65, 82, 65>>
Alameda == <<65, 108, 97, 109, 101, 100, 97>>
Clark == <<67, 108, 97, 114, 107>>

\* the five scored measures of one tract, crude prevalence
TractObs(id, name, county, v) ==
    <<Obs("CA", id, name, county, "DIABETES", "Crude prevalence", v[1]),
      Obs("CA", id, name, county, "CHD", "Crude prevalence", v[2]),
      Obs("CA", id, name, county, "OBESITY", "Crude prevalence", v[3]),
      Obs("CA", id, name, county, "BPHIGH", "Crude prevalence", v[4]),
      Obs("CA", id, name, county, "ACCESS2", "Crude prevalence", v[5])>>

BaseSC == TractObs(T1, NameA, SantaClara, <<12, 8, 30, 30, 10>>)
BaseAl == TractObs(T2, NameB, Alameda, <<8, 4, 20, 22, 6>>)

ExtraObs ==
    {Obs("CA", T1, NameB, SANTACLARA, "STROKE", "Crude prevalence", 3),
     Obs("CA", T1, NameA, SantaClara, "CSMOKING", "Age-adjusted prevalence", 40),
     Obs("NV", T3, NameA, Clark, "DIABETES", "Crude prevalence", 9),
     Obs("CA", T2, NameB, Alameda, "CHECKUP", "Crude prevalence", 70)}

FoodRows ==
    {Food("California", T1, "Santa Clara County", 1, 1),
     Food("California", T2, "Alameda County", 0, 1),
     Food("Nevada", T3, "Clark County", 1, 0)}

SeqsUpTo(S, n) == UNION {[1..k -> S] : k \in 0..n}

CdcFiles ==
    {a \o b \o x : a \in {<<>>, BaseSC}, b \in {<<>>, BaseAl},
                   x \in SeqsUpTo(ExtraObs, MaxExtraObs)}

UsdaFiles == SeqsUpTo(FoodRows, MaxFoodRows)

\* int64 tract codes of up to MaxIdLen digits, over the digits 0 and 6
TractCodes ==
    {<<6>> \o d : d \in SeqsUpTo({0, 6}, MaxIdLen - 1)}

PadUsdaFiles ==
    {<<Food("California", n, "Santa Clara County", 1, 1)>> : n \in TractCodes}

MeasureValues == {0, 10, 15, 20, 100}

RiskCdcFiles ==
    {TractObs(T1, NameA, SantaClara, v)
       \o <<Obs("CA", T1, NameA, SantaClara, "STROKE", "Crude prevalence", 3)>>
       \o BaseAl : v \in [1..5 -> MeasureValues \cup {NaN}]}

RiskUsdaFiles ==
    {<<>>} \cup
    {<<Food("California", T1, "Santa Clara County", u, l)>> :
        u \in {1}, l \in {0, 1}}

StaleFile == <<-4>>
EmptyDf == [cols |-> {}, rows |-> <<>>]

----------------------------------------------------------------------------
(* process_data.main *)

TransformerStart(RC, RU, ST) ==
    /\ pc = "load_cdc"
    /\ \/ cdcExists = TRUE /\ usdaExists = TRUE /\ rawCdc \in RC /\ rawUsda \in RU
       \/ cdcExists = TRUE /\ usdaExists = FALSE /\ rawCdc \in RC /\ rawUsda = <<>>
       \/ cdcExists = FALSE /\ usdaExists \in BOOLEAN /\ rawCdc = <<>>
          /\ rawUsda = <<>>
    /\ health_df = <<>> /\ health_pivot = EmptyDf /\ food_df = <<>>
    /\ merged_df = EmptyDf /\ final_df = EmptyDf /\ sc_df = <<>>
    /\ \E st \in ST : /\ fullCsv = (IF st THEN StaleFile ELSE NoFile)
                      /\ scCsv = (IF st THEN StaleFile ELSE NoFile)
    /\ written = {} /\ exc = "none" /\ failedAt = "none" /\ outcome = "running"

TransformerIdle ==
    /\ pc = "idle" /\ cdcExists = FALSE /\ usdaExists = FALSE
    /\ rawCdc = <<>> /\ rawUsda = <<>>
    /\ health_df = <<>> /\ health_pivot = EmptyDf /\ food_df = <<>>
    /\ merged_df = EmptyDf /\ final_df = EmptyDf /\ sc_df = <<>>
    /\ fullCsv = NoFile /\ scCsv = NoFile
    /\ written = {} /\ exc = "none" /\ failedAt = "none" /\ outcome = "running"

\* an exception leaves the try block of main
Raise(kind, stage) ==
    /\ exc' = kind /\ failedAt' = stage /\ pc' = "except"

\* Step 1: health_df = load_cdc_places()
load_cdc_places ==
    /\ pc = "load_cdc"
    /\ \/ /\ ~cdcExists
          /\ Raise("FileNotFoundError", "load_cdc")
          /\ UNCHANGED health_df
       \/ /\ cdcExists                   \* pd.read_csv raises
          /\ Raise("Exception", "load_cdc")
          /\ UNCHANGED health_df
       \/ /\ cdcExists
          /\ health_df' = FilterCdc(rawCdc)
          /\ pc' = "pivot"
          /\ UNCHANGED <<exc, failedAt>>
    /\ UNCHANGED <<cdcExists, usdaExists, rawCdc, rawUsda, health_pivot,
                   food_df, merged_df, final_df, sc_df, fullCsv, scCsv,
                   written, outcome, avars>>

\* Step 2: health_pivot = pivot_health_data(health_df)
Pivot ==
    /\ pc = "pivot"
    /\ health_pivot' = pivot_health_data(health_df)
    /\ pc' = "load_usda"
    /\ UNCHANGED <<cdcExists, usdaExists, rawCdc, rawUsda, health_df, food_df,
                   merged_df, final_df, sc_df, fullCsv, scCsv, written, exc,
                   failedAt, outcome, avars>>

\* Step 3: food_df = load_usda_food_access()
load_usda_food_access ==
    /\ pc = "load_usda"
    /\ \/ /\ ~usdaExists
          /\ Raise("FileNotFoundError", "load_usda")
          /\ UNCHANGED food_df
       \/ /\ usdaExists                  \* pd.read_excel raises
          /\ Raise("Exception", "load_usda")
          /\ UNCHANGED food_df
       \/ /\ usdaExists
          /\ food_df' = load_usda_rows(rawUsda)
          /\ pc' = "merge"
          /\ UNCHANGED <<exc, failedAt>>
    /\ UNCHANGED <<cdcExists, usdaExists, rawCdc, rawUsda, health_df,
                   health_pivot, merged_df, final_df, sc_df, fullCsv, scCsv,
                   written, outcome, avars>>

\* variant: the merged table is saved before it is scored
merge_datasets_and_save ==
    /\ pc = "merge"
    /\ health_pivot' = [health_pivot EXCEPT !.rows = PadHealth(@)]
    /\ food_df' = PadFood(food_df)
    /\ merged_df' = [cols |-> health_pivot.cols,
                     rows |-> LeftJoin(PadHealth(health_pivot.rows),
                                       PadFood(food_df))]
    /\ fullCsv' = merged_df'.rows
    /\ written' = written \cup {"full"}
    /\ pc' = "risk"
    /\ UNCHANGED <<cdcExists, usdaExists, rawCdc, rawUsda, health_df, final_df,
                   sc_df, scCsv, exc, failedAt, outcome, avars>>

\* Step 4: merged_df = merge_datasets(health_pivot, food_df); both arguments
\* get their tract_fips column rewritten in place
merge_datasets ==
    /\ pc = "merge"
    /\ health_pivot' = [health_pivot EXCEPT !.rows = PadHealth(@)]
    /\ food_df' = PadFood(food_df)
    /\ merged_df' = [cols |-> health_pivot.cols,
                     rows |-> LeftJoin(PadHealth(health_pivot.rows),
                                       PadFood(food_df))]
    /\ pc' = "risk"
    /\ UNCHANGED <<cdcExists, usdaExists, rawCdc, rawUsda, health_df, final_df,
                   sc_df, fullCsv, scCsv, written, exc, failedAt, outcome,
                   avars>>

\* Step 5: final_df = calculate_risk_scores(merged_df); df[health_measures]
\* raises KeyError when a scored measure has no column; the frame is changed
\* in place and returned, so merged_df and final_df are one object
calculate_risk_scores ==
    /\ pc = "risk"
    /\ \/ /\ ~(health_measures \subseteq merged_df.cols)
          /\ Raise("KeyError", "risk")
          /\ UNCHANGED <<merged_df, final_df>>
       \/ /\ health_measures \subseteq merged_df.cols
          /\ final_df' = [merged_df EXCEPT
                            !.rows = [i \in 1..Len(@) |-> RiskRow(@[i])]]
          /\ merged_df' = final_df'
          /\ pc' = "write_full"
          /\ UNCHANGED <<exc, failedAt>>
    /\ UNCHANGED <<cdcExists, usdaExists, rawCdc, rawUsda, health_df,
                   health_pivot, food_df, sc_df, fullCsv, scCsv, written,
                   outcome, avars>>

\* Step 6: final_df.to_csv(output_path); a failing write either could not open
\* the file or leaves a truncated one
WriteFull ==
    /\ pc = "write_full"
    /\ \/ /\ fullCsv' = final_df.rows
          /\ written' = written \cup {"full"}
          /\ pc' = "focus"
          /\ UNCHANGED <<exc, failedAt>>
       \/ /\ Raise("OSError", "write_full")
          /\ UNCHANGED <<fullCsv, written>>
       \/ /\ Raise("OSError", "write_full")
          /\ fullCsv' = PartialFile
          /\ written' = written \cup {"full"}
    /\ UNCHANGED <<cdcExists, usdaExists, rawCdc, rawUsda, health_df,
                   health_pivot, food_df, merged_df, final_df, sc_df, scCsv,
                   outcome, avars>>

\* Step 7: sc_df = focus_on_santa_clara(final_df)
focus_on_santa_clara ==
    /\ pc = "focus"
    /\ LET df_sc == SelectSeq(final_df.rows, IsSantaClara)
       IN  \/ /\ Len(df_sc) > 0
              /\ sc_df' = df_sc
              /\ scCsv' = df_sc
              /\ written' = written \cup {"santa_clara"}
              /\ pc' = "summary"
              /\ UNCHANGED <<exc, failedAt>>
           \/ /\ Len(df_sc) > 0
              /\ Raise("OSError", "focus")
              /\ UNCHANGED <<sc_df, scCsv, written>>
           \/ /\ Len(df_sc) > 0
              /\ Raise("OSError", "focus")
              /\ scCsv' = PartialFile
              /\ written' = written \cup {"santa_clara"}
              /\ UNCHANGED sc_df
           \/ /\ Len(df_sc) = 0
              /\ sc_df' = df_sc
              /\ pc' = "summary"
              /\ UNCHANGED <<scCsv, written, exc, failedAt>>
    /\ UNCHANGED <<cdcExists, usdaExists, rawCdc, rawUsda, health_df,
                   health_pivot, food_df, merged_df, final_df, fullCsv,
                   outcome, avars>>

\* the summary prints; the try block ends
Summary ==
    /\ pc = "summary"
    /\ outcome' = "ok"
    /\ pc' = "done"
    /\ UNCHANGED <<cdcExists, usdaExists, rawCdc, rawUsda, health_df,
                   health_pivot, food_df, merged_df, final_df, sc_df, fullCsv,
                   scCsv, written, exc, failedAt, avars>>

\* variant: the except Exception clause comes first
HandlerExceptionFirst(kind) == "reraised"

\* except FileNotFoundError: print the hint / except Exception: print, raise
HandlerFor(kind) ==
    IF kind = "FileNotFoundError" THEN "missing_input" ELSE "reraised"

Except ==
    /\ pc = "except"
    /\ outcome' = HandlerFor(exc)
    /\ pc' = "done"
    /\ UNCHANGED <<cdcExists, usdaExists, rawCdc, rawUsda, health_df,
                   health_pivot, food_df, merged_df, final_df, sc_df, fullCsv,
                   scCsv, written, exc, failedAt, avars>>

AcquirerIdle ==
    /\ apc = "idle"
    /\ rawFiles = [s \in {"cdc", "usda", "provider"} |-> "absent"]
    /\ fault = [s \in {"cdc", "usda", "provider"} |-> "none"]
    /\ success = [s \in {"cdc", "usda", "provider"} |-> "unset"]
    /\ attempts = <<>>
    /\ summary = [s \in {"cdc", "usda", "provider", "closing"} |-> "none"]

----------------------------------------------------------------------------
(* download_data.py *)

Sources == <<"cdc", "usda", "provider">>

\* where download_file can raise inside its try block: requests.get,
\* raise_for_status and the content-length header ("request"), open(destination)
\* ("open"), f.write ("write")
FileFaults == {"none", "request", "open", "write"}

\* where download_nppes_providers can raise inside its try block, and the
\* answer without results, which is no exception
ProviderFaults == {"none", "request", "no_results", "record", "open", "write"}

\* the destination after a download: written in full, cut short by a failing
\* write, or as it was
FileAfter(old, f) ==
    CASE f = "none"  -> "new"
      [] f = "write" -> "partial"
      [] OTHER       -> old

\* variant: the except clause returns True as well
download_file_true_on_error(f) == TRUE

\* download_file's return value: True at the end of the try block, False from
\* the except clause

download_file(f) == f = "none"

\* download_nppes_providers' return value
nppes_returns(f) == f = "none"

\* the "CDC PLACES 2024" and "USDA Food Access" lines
StatusLine(ok) == IF ok THEN "Success" ELSE "Failed"

\* the "Provider Locations" line
ProviderLine(ok) == IF ok THEN "Success" ELSE "Skipped"

AcquirerStart ==
    /\ apc = "cdc"
    /\ rawFiles \in [{"cdc", "usda", "provider"} -> {"absent", "old"}]
    /\ fault = [s \in {"cdc", "usda", "provider"} |-> "none"]
    /\ success = [s \in {"cdc", "usda", "provider"} |-> "unset"]
    /\ attempts = <<>>
    /\ summary = [s \in {"cdc", "usda", "provider", "closing"} |-> "none"]

\* cdc_success = download_cdc_places()
download_cdc_places ==
    /\ apc = "cdc"
    /\ \E f \in FileFaults :
          /\ fault' = [fault EXCEPT !["cdc"] = f]
          /\ rawFiles' = [rawFiles EXCEPT !["cdc"] = FileAfter(@, f)]
          /\ success' = [success EXCEPT !["cdc"] = download_file(f)]
    /\ attempts' = Append(attempts, "cdc")
    /\ apc' = "usda"
    /\ UNCHANGED <<summary, tvars>>

\* usda_success = download_usda_food_access()
download_usda_food_access ==
    /\ apc = "usda"
    /\ \E f \in FileFaults :
          /\ fault' = [fault EXCEPT !["usda"] = f]
          /\ rawFiles' = [rawFiles EXCEPT !["usda"] = FileAfter(@, f)]
          /\ success' = [success EXCEPT !["usda"] = download_file(f)]
    /\ attempts' = Append(attempts, "usda")
    /\ apc' = "provider"
    /\ UNCHANGED <<summary, tvars>>

\* provider_success = download_nppes_providers()
download_nppes_providers ==
    /\ apc = "provider"
    /\ \E f \in ProviderFaults :
          /\ fault' = [fault EXCEPT !["provider"] = f]
          /\ rawFiles' = [rawFiles EXCEPT !["provider"] = FileAfter(@, f)]
          /\ success' = [success EXCEPT
                           !["provider"] = nppes_returns(f)]
    /\ attempts' = Append(attempts, "provider")
    /\ apc' = "summary"
    /\ UNCHANGED <<summary, tvars>>

\* the DOWNLOAD SUMMARY block
PrintSummary ==
    /\ apc = "summary"
    /\ summary' =
          [cdc      |-> StatusLine(success["cdc"]),
           usda     |-> StatusLine(success["usda"]),
           provider |-> ProviderLine(success["provider"]),
           closing  |-> IF success["cdc"] /\ success["usda"]
                        THEN "All data downloaded successfully"
                        ELSE "Some downloads failed"]
    /\ apc' = "done"
    /\ UNCHANGED <<rawFiles, fault, success, attempts, tvars>>

NextAcq ==
    \/ download_cdc_places \/ download_usda_food_access
    \/ download_nppes_providers \/ PrintSummary

InitAcq == TransformerIdle /\ AcquirerStart

SpecAcq == InitAcq /\ [][NextAcq]_vars

Init == TransformerStart(CdcFiles, UsdaFiles, BOOLEAN) /\ AcquirerIdle

InitPad == TransformerStart({BaseSC \o BaseAl}, PadUsdaFiles, {FALSE}) /\ AcquirerIdle

InitRisk == TransformerStart(RiskCdcFiles, RiskUsdaFiles, {FALSE}) /\ AcquirerIdle

Next ==
    \/ load_cdc_places \/ Pivot \/ load_usda_food_access \/ merge_datasets
    \/ calculate_risk_scores \/ WriteFull \/ focus_on_santa_clara
    \/ Summary \/ Except

Spec == Init /\ [][Next]_vars

SpecPad == InitPad /\ [][Next]_vars

SpecRisk == InitRisk /\ [][Next]_vars

----------------------------------------------------------------------------
(* Properties *)

Ran(stage) ==
    CASE stage = "pivot"     -> pc \in {"load_usda", "merge", "risk", "write_full",
                                        "focus", "summary"}
      [] stage = "load_usda" -> pc \in {"merge", "risk", "write_full", "focus",
                                        "summary"}
      [] stage = "merge"     -> pc \in {"risk", "write_full", "focus", "summary"}
      [] stage = "risk"      -> pc \in {"write_full", "focus", "summary"}

Rows(df) == {df[i] : i \in 1..Len(df)}

\* C1: the merged table has as many rows as the health table it was merged
\* from, whatever the food-access table holds.
C1_MergeKeepsHealthRowCount ==
    pc = "risk" => Len(merged_df.rows) = Len(health_pivot.rows)

\* C2: the reshaped table has one row per distinct tract id of the filtered
\* observations: no tract id twice, and as many rows as distinct tract ids.
C2_PivotOneRowPerTract ==
    Ran("pivot") =>
        /\ \A i, j \in 1..Len(health_pivot.rows) :
              health_pivot.rows[i].tract_fips = health_pivot.rows[j].tract_fips
                  => i = j
        /\ Len(health_pivot.rows) =
              Cardinality({r.LocationID : r \in Rows(health_df)})

FinalRows == IF Ran("risk") THEN Rows(final_df.rows) ELSE {}

\* C3 as stated: closed-open buckets [0,10) [10,15) [15,20) [20,100]; every
\* score in 0..100 has one of the four categories.
C3_ClosedOpenBuckets ==
    \A r \in FinalRows :
        LET s == r.health_risk_score IN
        s.cnt > 0 =>
            /\ r.health_risk_category \in
                  {"Low Risk", "Medium Risk", "High Risk", "Critical Risk"}
            /\ s.sum = 0 => r.health_risk_category = "Low Risk"
            /\ s.sum = 10 * s.cnt => r.health_risk_category = "Medium Risk"
            /\ s.sum = 15 * s.cnt => r.health_risk_category = "High Risk"
            /\ s.sum = 20 * s.cnt => r.health_risk_category = "Critical Risk"
            /\ s.sum = 100 * s.cnt => r.health_risk_category = "Critical Risk"

\* C3 amended: the buckets are open-closed, (0,10] (10,15] (15,20] (20,100]:
\* 10 is "Low Risk", 15 "Medium Risk", 20 "High Risk", 100 "Critical Risk";
\* every score in (0,100] has exactly one category, and a score of 0, like a
\* missing score, has none.
C3_OpenClosedBuckets ==
    \A r \in FinalRows :
        LET s == r.health_risk_score
            c == r.health_risk_category
        IN  /\ (s.cnt = 0 \/ s.sum = 0) => c = "NaN"
            /\ (s.cnt > 0 /\ 0 < s.sum /\ s.sum <= 10 * s.cnt) => c = "Low Risk"
            /\ (10 * s.cnt < s.sum /\ s.sum <= 15 * s.cnt) => c = "Medium Risk"
            /\ (15 * s.cnt < s.sum /\ s.sum <= 20 * s.cnt) => c = "High Risk"
            /\ (20 * s.cnt < s.sum /\ s.sum <= 100 * s.cnt) => c = "Critical Risk"
            /\ s.sum <= 100 * s.cnt

C3_Witness ==
    \E r \in FinalRows :
        /\ r.health_risk_score.cnt > 1
        /\ r.health_risk_score.sum = 10 * r.health_risk_score.cnt
        /\ r.health_risk_category = "Low Risk"

ExpectedCombined(s, desert) ==
    IF s.sum > 15 * s.cnt
    THEN IF desert THEN "High Risk: Desert + Disease"
         ELSE "High Risk: Disease Only"
    ELSE IF desert THEN "Moderate Risk: Desert Only" ELSE "Low Risk"

Orders == {p \in [1..3 -> 1..3] : \A i, j \in 1..3 : p[i] = p[j] => i = j}

\* C4: for a record whose score is present, combined_risk is the label the
\* pair (score > 15, is_food_desert) selects, and the three overriding
\* assignments give that label in whichever order they are applied.
C4_CombinedRiskFromScoreAndFlag ==
    \A r \in FinalRows :
        r.health_risk_score.cnt > 0 =>
            /\ r.is_food_desert = (r.LILATracts_1And10 = 1)
            /\ r.combined_risk =
                  ExpectedCombined(r.health_risk_score, r.is_food_desert)
            /\ \A p \in Orders :
                  LET start == [r EXCEPT !.combined_risk = "Low Risk"]
                  IN  Assign(p[3], Assign(p[2], Assign(p[1], start)))
                          .combined_risk = r.combined_risk

C4_Witness ==
    \E r \in FinalRows :
        /\ r.health_risk_score.cnt > 0
        /\ r.health_risk_score.sum > 15 * r.health_risk_score.cnt
        /\ r.is_food_desert
        /\ r.combined_risk = "High Risk: Desert + Disease"

\* C10: after calculate_risk_scores every record carries one of the four
\* combined_risk labels, and a record without a score keeps "Low Risk",
\* food desert or not.
C10_LabelAlwaysSetMissingScoreLow ==
    \A r \in FinalRows :
        /\ r.combined_risk \in
              {"Low Risk", "Moderate Risk: Desert Only",
               "High Risk: Disease Only", "High Risk: Desert + Disease"}
        /\ (\A c \in health_measures : r.m[c] = NaN) =>
              /\ r.health_risk_score.cnt = 0
              /\ r.combined_risk = "Low Risk"

C10_Witness ==
    \E r \in FinalRows :
        /\ \A c \in health_measures : r.m[c] = NaN
        /\ r.is_food_desert
        /\ r.combined_risk = "Low Risk"

Failed == pc = "done" /\ outcome \in {"missing_input", "reraised"}

\* C5 as stated: a run that ended in failure, whichever stage failed, has
\* written no output file.
C5_FailedRunWroteNothing ==
    Failed => written = {}

\* C5 amended: a run in which one of the stages before the writes failed (load
\* health, reshape, load food-access, merge, risk scoring) has written no
\* output file; a run whose county stage failed has already written the
\* whole full-state file.
C5_FailureBeforeWritesWroteNothing ==
    /\ (Failed /\ failedAt \in {"load_cdc", "pivot", "load_usda", "merge", "risk"})
          => /\ written = {}
             /\ fullCsv \in {NoFile, StaleFile}
             /\ scCsv \in {NoFile, StaleFile}
    /\ (Failed /\ failedAt = "focus")
          => "full" \in written /\ fullCsv = final_df.rows

C5_Witness ==
    /\ Failed /\ failedAt = "risk" /\ exc = "KeyError"
    /\ Len(merged_df.rows) > 0 /\ written = {}

\* the county name holds the filter term at some offset, letter case aside
MatchesCounty(r) ==
    \E off \in 0..(Len(r.county_name) - Len(CountyFilter)) :
        \A k \in 1..Len(CountyFilter) :
            Lower(r.county_name[off + k]) = Lower(CountyFilter[k])

Matching == SelectSeq(final_df.rows, MatchesCounty)

WritesReached ==
    pc = "done" /\ failedAt \notin {"load_cdc", "pivot", "load_usda", "merge",
                                    "risk", "write_full"}

\* C6 as stated: once stages 1-5 and the full write have succeeded, the county
\* output is written with exactly the matching rows, zero rows included, and
\* the run succeeds.
C6_CountyOutputAlwaysWritten ==
    WritesReached =>
        /\ outcome = "ok"
        /\ "santa_clara" \in written
        /\ scCsv = Matching

\* C6 amended: once stages 1-5 and the full write have succeeded, a county
\* output is written only when at least one row matches: a successful run then
\* leaves exactly the matching rows in it, and a run that does not succeed
\* failed in the county write; when no row matches no county file is written
\* (one left by an earlier run stays as it was) and the run succeeds.
C6_CountyOutputWrittenWhenNonEmpty ==
    WritesReached =>
        /\ (Matching # <<>> /\ outcome = "ok")
              => "santa_clara" \in written /\ scCsv = Matching /\ sc_df = Matching
        /\ (Matching # <<>> /\ outcome # "ok")
              => failedAt = "focus" /\ exc = "OSError"
        /\ Matching = <<>>
              => /\ outcome = "ok"
                 /\ "santa_clara" \notin written
                 /\ scCsv \in {NoFile, StaleFile}

C6_Witness ==
    /\ pc = "done" /\ outcome = "ok" /\ "santa_clara" \in written
    /\ Len(scCsv) = 2 /\ Len(fullCsv) = 3
    /\ \E i \in 1..Len(scCsv) : scCsv[i].county_name = SANTACLARA

\* C7: a run ends in the missing-input outcome exactly when a raw input file
\* was absent at its load stage; every other failure ends re-raised.
C7_MissingInputIffRawFileAbsent ==
    pc = "done" =>
        LET absent == \/ ~cdcExists
                      \/ (~usdaExists /\ failedAt \notin {"load_cdc"})
        IN  /\ outcome = "missing_input" <=> absent
            /\ absent => /\ failedAt \in {"load_cdc", "load_usda"}
                         /\ failedAt = "load_cdc" <=> ~cdcExists
            /\ (failedAt # "none" /\ ~absent) => outcome = "reraised"
            /\ failedAt = "none" <=> outcome = "ok"

C7_Witness ==
    /\ pc = "done" /\ outcome = "missing_input"
    /\ failedAt = "load_usda" /\ cdcExists /\ ~usdaExists

FoodRowsLoaded == IF Ran("load_usda") THEN Rows(food_df) ELSE {}

SummaryReportsFailure(s) ==
    IF s = "provider" THEN summary[s] = "Skipped" ELSE summary[s] = "Failed"

\* C8: whatever fails, the three sources are attempted once each in the order
\* CDC, USDA, provider; the run reaches the summary; a source that succeeded
\* has its file written; and a source's summary line reports failure exactly
\* when its download failed.
C8_EverySourceAttemptedAndReported ==
    /\ apc # "done" => ENABLED NextAcq
    /\ apc = "usda" => attempts = <<"cdc">>
    /\ apc = "provider" => attempts = <<"cdc", "usda">>
    /\ apc \in {"summary", "done"} => attempts = Sources
    /\ \A i \in 1..Len(attempts) :
          fault[attempts[i]] = "none" => rawFiles[attempts[i]] = "new"
    /\ apc = "done" =>
          \A s \in {"cdc", "usda", "provider"} :
              /\ SummaryReportsFailure(s) <=> fault[s] # "none"
              /\ summary[s] = "Success" <=> fault[s] = "none"

C8_Witness ==
    /\ apc = "done"
    /\ fault["cdc"] = "request" /\ rawFiles["cdc"] = "absent"
    /\ fault["usda"] = "none" /\ rawFiles["usda"] = "new"
    /\ fault["provider"] = "none" /\ rawFiles["provider"] = "new"
    /\ summary["cdc"] = "Failed" /\ summary["usda"] = "Success"
    /\ summary["provider"] = "Success"

====
